---- MODULE Spec2Model ----
(***************************************************************************)
(* Simulation core of the two-paddle ball game (src/src/pong.rs and the    *)
(* systems declared in src/src/systems/mod.rs).                            *)
(*                                                                         *)
(* Durations (the spawn timer, dt) are f32 values that are multiples of    *)
(* 2^-29 second, held as integers in that unit; the subtraction of         *)
(* Pong::update rounds its result to f32 (24 significant bits, ties to     *)
(* even).  Lengths are held on a grid of 1/Scale arena unit; velocities    *)
(* and speeds keep the program's values (units per second) and a           *)
(* displacement is rounded to the grid.                                    *)
(***************************************************************************)
EXTENDS Integers, Sequences, FiniteSets, TLC

VARIABLES
    pc,                \* "new" before on_start, then the next step of the tick
    ball_spawn_timer,  \* Pong.ball_spawn_timer : Option<f32>
    paddles,           \* the store's Paddle entities, in creation order
    balls,             \* the store's Ball entities, in creation order
    delta_seconds,     \* Time::delta_seconds() of the current tick
    elapsed,           \* stopwatch: the exact sum of the dt of all update calls, or None
    clock,             \* the timing collaborator, see DeltaSeconds
    input_axis,        \* the input collaborator: "bound" or "missing"
    bounces_since_move \* runs of BounceSystem since the last MoveBallsSystem run

vars == <<pc, ball_spawn_timer, paddles, balls, delta_seconds, elapsed, clock,
          input_axis, bounces_since_move>>

---------------------------------------------------------------------------
(* Bounds of the model *)

GridBits == 2       \* the grid of lengths has 2^GridBits points per arena unit
MaxDt == 2          \* largest dt of one tick, in quarter seconds
MaxSkew == 1        \* largest deviation of a dt from a quarter second, in Skew
MaxInput == 2       \* largest magnitude of the paddle input axis
MaxSeconds == 6     \* with the stopwatch on, update is not called past this time

---------------------------------------------------------------------------
(* Grid points per arena unit *)

Scale == 2 ^ GridBits

---------------------------------------------------------------------------
(* Program constants *)

ARENA_HEIGHT == 100
ARENA_WIDTH == 100
PADDLE_HEIGHT == 16
PADDLE_WIDTH == 4
BALL_VELOCITY_X == 45
BALL_VELOCITY_Y == 20
BALL_RADIUS == 2
SPAWN_DELAY == 3
PADDLE_SPEED == 75

\* Significant bits of an f32.
MantissaBits == 24

None == <<>>
Some(t) == <<t>>

\* One second in the unit of durations, 2^-29 s: the spacing of the f32
\* values in [1/64, 1/32), where the frame time of 60 frames a second lies.
Second == 2 ^ (MantissaBits + 5)
Quarter == Second \div 4

Abs(n) == IF n < 0 THEN -n ELSE n

\* The spacing of the f32 values at the magnitude of n, starting from q.
RECURSIVE Quantum(_, _)
Quantum(n, q) ==
    IF Abs(n) \div q < 2 ^ MantissaBits THEN q ELSE Quantum(n, 2 * q)

\* n rounded to the nearest f32 value, ties to the even significand.
RoundF32(n) ==
    LET q == Quantum(n, 1)
        lo == (n \div q) * q
        rem == n - lo
    IN  IF 2 * rem < q THEN lo
        ELSE IF 2 * rem > q THEN lo + q
        ELSE IF (lo \div q) % 2 = 0 THEN lo ELSE lo + q

\* a - b in f32.
f32_sub(a, b) == RoundF32(a - b)

Min(a, b) == IF a <= b THEN a ELSE b
Max(a, b) == IF a >= b THEN a ELSE b
clamp(v, lo, hi) == Max(lo, Min(hi, v))

---------------------------------------------------------------------------
(* pong.rs *)

Paddle_new(side) ==
    [side |-> side, width |-> PADDLE_WIDTH * Scale, height |-> PADDLE_HEIGHT * Scale]

WithTransform(component, x, y) == component @@ [x |-> x, y |-> y]

\* Mutant: both entities are built with Side::Left.
initialise_paddles_same_side ==
    LET y == (ARENA_HEIGHT * Scale) \div 2 IN
    << WithTransform(Paddle_new("Left"), (PADDLE_WIDTH * Scale) \div 2, y),
       WithTransform(Paddle_new("Left"),
                     ARENA_WIDTH * Scale - (PADDLE_WIDTH * Scale) \div 2, y) >>

\* Mutant: y is left at the Transform default instead of ARENA_HEIGHT / 2.
initialise_paddles_default_y ==
    LET y == 0 IN
    << WithTransform(Paddle_new("Left"), (PADDLE_WIDTH * Scale) \div 2, y),
       WithTransform(Paddle_new("Right"),
                     ARENA_WIDTH * Scale - (PADDLE_WIDTH * Scale) \div 2, y) >>

initialise_paddles ==
    LET y == (ARENA_HEIGHT * Scale) \div 2 IN
    << WithTransform(Paddle_new("Left"), (PADDLE_WIDTH * Scale) \div 2, y),
       WithTransform(Paddle_new("Right"),
                     ARENA_WIDTH * Scale - (PADDLE_WIDTH * Scale) \div 2, y) >>

\* Mutant: the y velocity is initialised from BALL_VELOCITY_X.
initialise_ball_wrong_velocity ==
    WithTransform([radius |-> BALL_RADIUS * Scale,
                   velocity |-> <<BALL_VELOCITY_X, BALL_VELOCITY_X>>],
                  (ARENA_WIDTH * Scale) \div 2, (ARENA_HEIGHT * Scale) \div 2)

initialise_ball ==
    WithTransform([radius |-> BALL_RADIUS * Scale,
                   velocity |-> <<BALL_VELOCITY_X, BALL_VELOCITY_Y>>],
                  (ARENA_WIDTH * Scale) \div 2, (ARENA_HEIGHT * Scale) \div 2)

\* Mutant: the timer is armed with the one second the comment speaks of.
on_start_timer_one_second == Some(1 * Second)

\* Mutant: the timer is never armed.
on_start_timer_unarmed == None

on_start_timer == Some(SPAWN_DELAY * Second)

on_start ==
    /\ pc = "new"
    /\ ball_spawn_timer' = on_start_timer
    /\ paddles' = initialise_paddles
    /\ pc' = "update"
    /\ UNCHANGED <<balls, delta_seconds, elapsed, clock, input_axis,
                 bounces_since_move>>

\* The store and the timer after Pong::update, as [timer, balls].
\* Mutant: the timer is read without take(), so it stays armed after the spawn.
update_result_no_take(timer_opt, store, dt) ==
    IF timer_opt # None
    THEN LET timer == f32_sub(timer_opt[1], dt) IN
         IF timer <= 0
         THEN [timer |-> timer_opt, balls |-> Append(store, initialise_ball)]
         ELSE [timer |-> Some(timer), balls |-> store]
    ELSE [timer |-> timer_opt, balls |-> store]

\* Mutant: expiry is tested with < instead of <=.
update_result_strict(timer_opt, store, dt) ==
    IF timer_opt # None
    THEN LET timer == f32_sub(timer_opt[1], dt) IN
         IF timer < 0
         THEN [timer |-> None, balls |-> Append(store, initialise_ball)]
         ELSE [timer |-> Some(timer), balls |-> store]
    ELSE [timer |-> None, balls |-> store]

update_result(timer_opt, store, dt) ==
    IF timer_opt # None
    THEN LET timer == f32_sub(timer_opt[1], dt) IN
         IF timer <= 0
         THEN [timer |-> None, balls |-> Append(store, initialise_ball)]
         ELSE [timer |-> Some(timer), balls |-> store]
    ELSE [timer |-> None, balls |-> store]

\* The f32 values nearest to 1/10, 1/60, 3/10, 1/20 and 1/30 second.
FrameTime ==
    [tenth |-> 53687092, sixtieth |-> 8947849, three_tenths |-> 161061280,
     twentieth |-> 26843546, thirtieth |-> 17895698]

\* 2^-24 s.
Skew == Second \div (2 ^ MantissaBits)

\* Frame times at and around whole quarter seconds.
Frames ==
    { k * Quarter + e * Skew : k \in 1..MaxDt, e \in (-MaxSkew)..MaxSkew }

\* Half the spacing of the f32 values at the spawn delay, 2^-23 s.
HalfUlp == Quantum(SPAWN_DELAY * Second, 1) \div 2

\* The dt values (f32, in 2^-29 s) the timing collaborator can deliver:
\* one frame time on every call (a clock of FrameTime), 0 on every call
\* ("frozen"), a positive time of at most HalfUlp ("crawling"), a frame time
\* around whole quarter seconds ("running"), that or 0 ("jitter"), or a whole
\* number of quarter seconds ("free").
DeltaSeconds ==
    CASE clock \in DOMAIN FrameTime -> {FrameTime[clock]}
      [] clock = "frozen" -> {0}
      [] clock = "crawling" -> 1..HalfUlp
      [] clock = "running" -> Frames
      [] clock = "jitter" -> {0} \cup Frames
      [] OTHER -> { k * Quarter : k \in 0..MaxDt }

\* The stopwatch e, as whole seconds s and a fraction f, advanced by dt.
stopwatch_add(e, dt) ==
    IF e = None THEN None
    ELSE [s |-> e.s + (e.f + dt) \div Second, f |-> (e.f + dt) % Second]

\* The stopwatch e reads at most MaxSeconds.
stopwatch_within(e) ==
    IF e = None THEN TRUE
    ELSE IF e.s = MaxSeconds THEN e.f = 0 ELSE e.s < MaxSeconds

update ==
    /\ pc = "update"
    /\ \E dt \in DeltaSeconds :
          /\ stopwatch_within(stopwatch_add(elapsed, dt))
          /\ delta_seconds' = dt
          /\ elapsed' = stopwatch_add(elapsed, dt)
          /\ LET r == update_result(ball_spawn_timer, balls, dt) IN
                /\ ball_spawn_timer' = r.timer
                /\ balls' = r.balls
    /\ pc' = "paddle"
    /\ UNCHANGED <<paddles, clock, input_axis,
                 bounces_since_move>>

---------------------------------------------------------------------------
(* systems: PaddleSystem, MoveBallsSystem, BounceSystem *)

\* The axis values the input collaborator can deliver; a missing input is 0.
Inputs == IF input_axis = "bound" THEN (-MaxInput)..MaxInput ELSE {0}

\* rate * dt on the grid of lengths, rounded to the nearer grid point; the
\* product is formed from the two halves of dt to stay within 32 bits.
displacement(rate, dt) ==
    LET low == 2 ^ 15
        high == Second \div low
        a == rate * Scale
        t == a * (dt \div low) + (a * (dt % low)) \div low
    IN  (t + high \div 2) \div high

move_paddle(p, input, dt) ==
    [p EXCEPT !.y = clamp(p.y + displacement(input * PADDLE_SPEED, dt),
                          p.height \div 2,
                          ARENA_HEIGHT * Scale - p.height \div 2)]

PaddleSystem ==
    /\ pc = "paddle"
    /\ \E input \in [1..Len(paddles) -> Inputs] :
          paddles' = [i \in 1..Len(paddles) |->
                         move_paddle(paddles[i], input[i], delta_seconds)]
    /\ pc' = "move"
    /\ UNCHANGED <<ball_spawn_timer, balls, delta_seconds, elapsed, clock, input_axis,
                 bounces_since_move>>

move_ball(b, dt) ==
    [b EXCEPT !.x = b.x + displacement(b.velocity[1], dt),
              !.y = b.y + displacement(b.velocity[2], dt)]

MoveBallsSystem ==
    /\ pc = "move"
    /\ balls' = [i \in 1..Len(balls) |-> move_ball(balls[i], delta_seconds)]
    /\ pc' = "bounce"
    /\ bounces_since_move' = 0
    /\ UNCHANGED <<ball_spawn_timer, paddles, delta_seconds, elapsed, clock, input_axis>>

\* Step 1: top and bottom wall.
bounce_wall(b) ==
    IF b.y - b.radius <= 0 \/ b.y + b.radius >= ARENA_HEIGHT * Scale
    THEN [b EXCEPT !.velocity[2] = -b.velocity[2],
                   !.y = clamp(b.y, b.radius, ARENA_HEIGHT * Scale - b.radius)]
    ELSE b

\* Axis-aligned overlap of the ball's square and the paddle's rectangle.
overlaps(b, p) ==
    /\ b.x - b.radius <= p.x + p.width \div 2
    /\ b.x + b.radius >= p.x - p.width \div 2
    /\ b.y - b.radius <= p.y + p.height \div 2
    /\ b.y + b.radius >= p.y - p.height \div 2

\* Step 2, one paddle.
bounce_paddle(b, p) ==
    IF /\ overlaps(b, p)
       /\ \/ p.side = "Left" /\ b.velocity[1] < 0
          \/ p.side = "Right" /\ b.velocity[1] > 0
    THEN [b EXCEPT !.velocity[1] = -b.velocity[1]]
    ELSE b

\* Step 2, every paddle in store order.
RECURSIVE bounce_paddles(_, _, _)
bounce_paddles(b, ps, i) ==
    IF i > Len(ps) THEN b ELSE bounce_paddles(bounce_paddle(b, ps[i]), ps, i + 1)

\* Step 3: the ball has left the arena through the left or right edge.
out_of_bounds(b) ==
    \/ b.x + b.radius < 0
    \/ b.x - b.radius > ARENA_WIDTH * Scale

bounce_ball(b, ps) == bounce_paddles(bounce_wall(b), ps, 1)

keep_ball(b) == ~out_of_bounds(b)

bounce(store, ps) ==
    SelectSeq([i \in 1..Len(store) |-> bounce_ball(store[i], ps)], keep_ball)

BounceSystem ==
    /\ pc = "bounce"
    /\ balls' = bounce(balls, paddles)
    /\ pc' = "update"
    /\ bounces_since_move' = bounces_since_move + 1
    /\ UNCHANGED <<ball_spawn_timer, paddles, delta_seconds, elapsed, clock, input_axis>>

---------------------------------------------------------------------------
(* The game session: on_start, then ticks in the order of spec section 5 *)

Init ==
    /\ pc = "new"
    /\ ball_spawn_timer = None
    /\ paddles = <<>>
    /\ balls = <<>>
    /\ delta_seconds = 0
    /\ elapsed = [s |-> 0, f |-> 0]
    /\ clock = "free"
    /\ input_axis = "bound"
    /\ bounces_since_move = 0

Next ==
    \/ on_start
    \/ update
    \/ PaddleSystem
    \/ MoveBallsSystem
    \/ BounceSystem

Spec == Init /\ [][Next]_vars

---------------------------------------------------------------------------
(* The session with no input bound, under each clock that can bring the   *)
(* spawn delay to its end within MaxSeconds                                *)

InitTimer ==
    /\ pc = "new"
    /\ ball_spawn_timer = None
    /\ paddles = <<>>
    /\ balls = <<>>
    /\ delta_seconds = 0
    /\ elapsed = [s |-> 0, f |-> 0]
    /\ clock \in {"free", "jitter"} \cup DOMAIN FrameTime
    /\ input_axis = "missing"
    /\ bounces_since_move = 0

SpecTimer == InitTimer /\ [][Next]_vars

---------------------------------------------------------------------------
(* The session with no stopwatch, under a clock whose every dt is a frame *)
(* time ("running" and the clocks of FrameTime), is positive but at most  *)
(* HalfUlp ("crawling"), or is 0 ("frozen"), with the engine's main loop  *)
(* calling update and the systems every frame                             *)

InitLive ==
    /\ pc = "new"
    /\ ball_spawn_timer = None
    /\ paddles = <<>>
    /\ balls = <<>>
    /\ delta_seconds = 0
    /\ elapsed = None
    /\ clock \in {"running", "crawling", "frozen"} \cup DOMAIN FrameTime
    /\ input_axis = "missing"
    /\ bounces_since_move = 0

SpecLive == InitLive /\ [][Next]_vars /\ WF_vars(Next)

---------------------------------------------------------------------------
(* BounceSystem as a function of the store: one ball and the two paddles  *)
(* drawn from bounded sets, BounceSystem run, dispatched once more with   *)
(* no MoveBallsSystem run in between, and run again                       *)

BallXs ==
    { -3 * Scale, -2 * Scale, Scale \div 2, 5 * Scale, 50 * Scale, 95 * Scale,
      ARENA_WIDTH * Scale - Scale \div 2, 102 * Scale, 103 * Scale }
BallYs == { -1 * Scale, 1 * Scale, 2 * Scale, 50 * Scale, 98 * Scale, 99 * Scale }
BallVelocities ==
    { <<vx, vy>> : vx \in {BALL_VELOCITY_X, -BALL_VELOCITY_X},
                   vy \in {BALL_VELOCITY_Y, -BALL_VELOCITY_Y} }
PaddleYs == { 8 * Scale, 50 * Scale, 92 * Scale }

InitBounce ==
    /\ pc = "bounce"
    /\ ball_spawn_timer = None
    /\ \E ly \in PaddleYs, ry \in PaddleYs :
          paddles = << [initialise_paddles[1] EXCEPT !.y = ly],
                       [initialise_paddles[2] EXCEPT !.y = ry] >>
    /\ \E x \in BallXs, y \in BallYs, v \in BallVelocities :
          balls = << [initialise_ball EXCEPT !.x = x, !.y = y, !.velocity = v] >>
    /\ delta_seconds = 0
    /\ elapsed = None
    /\ clock = "free"
    /\ input_axis = "bound"
    /\ bounces_since_move = 0

redispatch_bounce ==
    /\ pc = "update"
    /\ bounces_since_move = 1
    /\ pc' = "bounce"
    /\ UNCHANGED <<ball_spawn_timer, paddles, balls, delta_seconds, elapsed, clock,
                   input_axis, bounces_since_move>>

NextBounce ==
    \/ BounceSystem
    \/ redispatch_bounce

SpecBounce == InitBounce /\ [][NextBounce]_vars

---------------------------------------------------------------------------
(* Properties *)

Started == pc # "new"

Velocities(store) == [i \in 1..Len(store) |-> store[i].velocity]

\* C1: in every reachable state the store holds at most one Ball entity.
C1_AtMostOneBall == Len(balls) <= 1

C1_Witness ==
    /\ Len(balls) = 1
    /\ clock = "tenth"
    /\ elapsed.s = SPAWN_DELAY /\ elapsed.f > Quarter
    /\ pc = "update"

\* The accumulated dt of the update calls is below the spawn delay.
BeforeDelay(e) == e.s < SPAWN_DELAY

\* The store holds exactly the Ball that initialise_ball builds.
FreshBall(store) ==
    /\ Len(store) = 1
    /\ store[1].x = 50 * Scale
    /\ store[1].y = 50 * Scale
    /\ store[1].velocity = <<45, 20>>
    /\ store[1].radius = 2 * Scale

\* C2 as stated: from session start no Ball exists while the accumulated dt of
\* the update calls is below 3.0 seconds, and the update call in which the
\* accumulated dt reaches 3.0 seconds leaves exactly one Ball, at (50, 50) with
\* velocity (45, 20) and radius 2.
C2_FirstSpawnAfterThreeSeconds ==
    [][pc = "update" =>
          /\ BeforeDelay(elapsed') => balls' = <<>>
          /\ (BeforeDelay(elapsed) /\ ~BeforeDelay(elapsed')) => FreshBall(balls')]_vars

\* C2 as amended: when every dt is a whole number of quarter seconds, so that
\* every subtraction from the timer is exact, no Ball exists while the
\* accumulated dt is below 3.0 seconds and the update call in which it reaches
\* 3.0 seconds leaves exactly one Ball, at (50, 50) with velocity (45, 20) and
\* radius 2.
C2_FirstSpawnWhenExact ==
    [][(pc = "update" /\ clock = "free") =>
          /\ BeforeDelay(elapsed') => balls' = <<>>
          /\ (BeforeDelay(elapsed) /\ ~BeforeDelay(elapsed')) => FreshBall(balls')]_vars

C2_Witness ==
    /\ pc = "paddle"
    /\ clock = "free"
    /\ elapsed = [s |-> SPAWN_DELAY, f |-> 0]
    /\ FreshBall(balls)

\* C3: whenever the Ball has been destroyed the spawn timer is re-armed: at the
\* end of every update call that leaves no Ball in the store the Spawner is
\* Counting (the timer is present), so that a new Ball follows 3.0 seconds later.
C3_RearmedAfterDestroy ==
    (pc = "paddle" /\ balls = <<>>) => ball_spawn_timer # None

\* C4: the spawn timer is present only while no Ball exists and its remaining
\* time is positive; it is None once the update call has created the Ball.
C4_TimerOnlyWhileCounting ==
    /\ ball_spawn_timer # None => (balls = <<>> /\ ball_spawn_timer[1] > 0)
    /\ (pc = "paddle" /\ balls # <<>>) => ball_spawn_timer = None

C4_Witness ==
    /\ pc = "paddle"
    /\ ball_spawn_timer = None
    /\ FreshBall(balls)
    /\ clock = "three_tenths"
    /\ elapsed.s = SPAWN_DELAY /\ elapsed.f > Quarter

\* C5: from session start onward exactly two Paddle entities exist, exactly one
\* with side Left and exactly one with side Right.
C5_TwoPaddlesOnePerSide ==
    Started =>
        /\ Len(paddles) = 2
        /\ Cardinality({i \in 1..Len(paddles) : paddles[i].side = "Left"}) = 1
        /\ Cardinality({i \in 1..Len(paddles) : paddles[i].side = "Right"}) = 1

C5_Witness ==
    /\ pc = "update"
    /\ bounces_since_move = 1
    /\ Len(paddles) = 2
    /\ paddles[1].y # 50 * Scale
    /\ balls = <<>> /\ ball_spawn_timer = None

\* C6: every paddle's vertical centre lies in [8, 92] in every state, for any
\* input values and any dt.
C6_PaddleWithinArena ==
    \A i \in 1..Len(paddles) :
        /\ paddles[i].y >= 8 * Scale
        /\ paddles[i].y <= 92 * Scale

C6_Witness ==
    /\ pc = "move"
    /\ delta_seconds > 0
    /\ paddles[1].y = 8 * Scale
    /\ paddles[2].y = 92 * Scale

\* C7: while the Ball exists |velocity.x| = 45 and |velocity.y| = 20.
C7_VelocityMagnitude ==
    \A i \in 1..Len(balls) :
        /\ Abs(balls[i].velocity[1]) = 45
        /\ Abs(balls[i].velocity[2]) = 20

C7_Witness ==
    /\ Len(balls) = 1
    /\ balls[1].velocity = <<-45, -20>>

\* C8: running BounceSystem a second time in the same tick, with no
\* MoveBallsSystem run in between, leaves every ball's velocity as the first
\* run left it.
C8_BounceTwiceSameVelocity ==
    [][(pc = "bounce" /\ bounces_since_move = 1) =>
           Velocities(balls') = Velocities(balls)]_vars

\* C9: a Ball at (0.5, 50) with radius 2 and velocity.x < 0 is
\* destroyed by BounceSystem, after which the store holds no Ball.
C9_DestroyedAtHalf ==
    [][(/\ pc = "bounce"
        /\ Len(balls) = 1
        /\ balls[1].x = Scale \div 2
        /\ balls[1].y = 50 * Scale
        /\ balls[1].radius = 2 * Scale
        /\ balls[1].velocity[1] < 0) => balls' = <<>>]_vars

\* C10 as stated: when every update call's dt is at least a fixed positive
\* amount a Ball is eventually created; when every dt is 0 no Ball is ever
\* created.
C10_FirstSpawnLiveness ==
    /\ (clock # "frozen") => <>(Len(balls) > 0)
    /\ (clock = "frozen") => [](balls = <<>>)

\* C10 as amended: when every update call's dt is greater than 2^-23 second
\* (half the spacing of the f32 values at 3.0) a Ball is eventually created;
\* when every dt is at most 2^-23 second, 0 included, the timer never decreases
\* and no Ball is ever created.
C10_FirstSpawnAboveHalfUlp ==
    /\ (clock \notin {"frozen", "crawling"}) => <>(Len(balls) > 0)
    /\ (clock \in {"frozen", "crawling"}) =>
           [](balls = <<>> /\ (pc # "new" => ball_spawn_timer = on_start_timer))

C10_Witness ==
    /\ clock = "sixtieth"
    /\ pc = "paddle"
    /\ FreshBall(balls)

====
